---- MODULE Spec2Model ----
(***************************************************************************)
(* Retrieval engine of cwl: CloudWatchClient::get_log_events (bounded      *)
(* query) and CloudWatchClient::tail_log_events (live tail), driven        *)
(* against a paginated log store.                                          *)
(***************************************************************************)
EXTENDS Integers, Sequences, FiniteSets, TLC

(* ---------------- bounds of the model ---------------- *)
MaxPages == 3        \* pages of the store's page sequence (query)
MaxPageLen == 2      \* events per page (query)
MaxLimit == 4        \* largest user limit tried
NumEvents == 2       \* events held by the store during a tail session
MaxTailPage == 2     \* events per page (tail)
MaxPolls == 3        \* page requests issued by one tail session
MaxLimitHi == 2      \* largest multiple of 2^31 in a user limit

(* ---------------- program constants ---------------- *)
MAX_EVENTS_PER_REQUEST == 10000     \* client.rs:81
LOOKBACK_MS == 60000                \* client.rs:163
SLEEP_MS == 1000                    \* client.rs:185, from_secs(1)
I32_MAX == 2147483647               \* client.rs:105, `as i32`

(* Option::None of an integer-valued option (tokens, limits, timestamps   *)
(* are all non-negative in the model).                                     *)
None == -1

Groups == {"app", "db"}
Now0 == 100000                      \* wall clock at the first poll
Timestamps == {Now0 - LOOKBACK_MS + 5, Now0 - LOOKBACK_MS + 7}

VARIABLES
    op,                 \* command dispatched by main: "query" or "tail"
    log_group,          \* the log_group argument
    pc,                 \* position of the running operation
    result,             \* value returned to the caller, once returned
    \* ---- get_log_events ----
    limit,              \* limit: Option<usize>, its low 31 bits
    limit_hi,           \* limit: its bits above the low 31 (limit_hi * 2^31)
    pages,              \* the store's page sequence
    events,             \* let mut events
    next_token,         \* let mut next_token
    request,            \* the request in flight
    requests,           \* history: every request issued, in order
    responses,          \* history: every response received, in order
    \* ---- tail_log_events and its caller commands::tail::run ----
    cb_kind,            \* the callback: "run" (closure of tail::run) or "any"
    running,            \* the AtomicBool the Ctrl-C handler clears
    store_ts,           \* timestamp of each event of the store (None: absent)
    served,             \* store cursor: events served in this page sequence
    now,                \* wall clock, milliseconds
    next_forward_token, \* let mut next_forward_token
    last_event_time,    \* let mut last_event_time
    pending,            \* events of the current response not yet iterated
    response_token,     \* response.next_token of the current response
    delivered,          \* history: every callback invocation, in order
    printed,            \* history: events printed by the closure of tail::run
    \* ---- utils: parse_duration, flatten_json_to_columns, analyze_json_logs
    input,              \* argument of parse_duration / flatten_json_to_columns
    logs,               \* logs: &[String]
    column_frequency,   \* let mut column_frequency
    column_max_width,   \* let mut column_max_width
    all_rows,           \* let mut all_rows
    flattened,          \* history: per line, the flattener's output, if called
    columns,            \* let mut columns
    rows                \* let mut rows

qvars == <<limit, limit_hi, pages, events, next_token>>
hvars == <<request, requests, responses>>
tvars == <<cb_kind, running, store_ts, served, now,
           next_forward_token, last_event_time, pending, response_token,
           delivered, printed>>
fvars == <<input, logs, column_frequency, column_max_width, all_rows,
           flattened, columns, rows>>
vars == <<op, log_group, pc, result, qvars, hvars, tvars, fvars>>

Min(a, b) == IF a <= b THEN a ELSE b

RECURSIVE Concat(_)
Concat(ss) == IF ss = <<>> THEN <<>> ELSE Head(ss) \o Concat(Tail(ss))

SeqToSet(s) == { s[i] : i \in 1..Len(s) }

(* ---------------- the store, as a page sequence ---------------- *)
(* A page shape gives, per page, -1 for a response whose events field is   *)
(* absent, or the number of events of the page. Events are numbered in     *)
(* response order, so the concatenation of the pages is <<1, ..., N>>.     *)
PageShapes == UNION { [1..k -> (-1)..MaxPageLen] : k \in 1..MaxPages }

ShapeLen(n) == IF n < 0 THEN 0 ELSE n

RECURSIVE EventsBefore(_, _)
EventsBefore(shape, i) ==
    IF i <= 1 THEN 0 ELSE EventsBefore(shape, i - 1) + ShapeLen(shape[i - 1])

BuildPages(shape) ==
    [i \in 1..Len(shape) |->
        [has_events |-> shape[i] >= 0,
         events |-> [j \in 1..ShapeLen(shape[i]) |-> EventsBefore(shape, i) + j],
         next_token |-> IF i < Len(shape) THEN i + 1 ELSE None]]

(* The page the store answers with: the first page for a request without  *)
(* token, the page the token names otherwise.                              *)
PageFor(token) == IF token = None THEN pages[1] ELSE pages[token]

AllEvents == Concat([i \in 1..Len(pages) |-> pages[i].events])

NoRequest == [limit |-> 0, next_token |-> None, accumulated |-> 0]
NoTailRequest == [start_time |-> 0, next_token |-> None, slept |-> 0,
                  delivered_before |-> 0, running |-> TRUE]

(* ---------------- get_log_events ---------------- *)
(* A usize u is held as the pair hi, lo with u = hi * 2^31 + lo and        *)
(* 0 <= lo < 2^31; a length len is always below 2^31.                      *)
(* u.saturating_sub(len), as such a pair.                                  *)
SaturatingSub(hi, lo, len) ==
    IF lo >= len THEN [hi |-> hi, lo |-> lo - len]
    ELSE IF hi > 0 THEN [hi |-> hi - 1, lo |-> ((lo - len) + I32_MAX) + 1]
    ELSE [hi |-> 0, lo |-> 0]

Remaining(hi, user_limit, len) == SaturatingSub(hi, user_limit, len)

(* `u as i32`: the low 32 bits of u, read as two's complement.             *)
AsI32(u) == IF u.hi % 2 = 1 THEN (u.lo - I32_MAX) - 1 ELSE u.lo

BatchLimit(hi, user_limit, len) ==
    IF user_limit # None
    THEN Min(AsI32(Remaining(hi, user_limit, len)), MAX_EVENTS_PER_REQUEST)
    ELSE MAX_EVENTS_PER_REQUEST

LimitExhausted_Never(hi, user_limit, len) == FALSE

LimitExhausted(hi, user_limit, len) ==
    user_limit # None /\ Remaining(hi, user_limit, len) = [hi |-> 0, lo |-> 0]

LimitReached(hi, user_limit, len) ==
    user_limit # None /\ hi = 0 /\ len >= user_limit

Truncate_KeepsTail(s, n) ==
    IF Len(s) > n THEN SubSeq(s, Len(s) - n + 1, Len(s)) ELSE s

Truncate(s, n) == IF Len(s) > n THEN SubSeq(s, 1, n) ELSE s

ErrContext(group) == <<"Failed to get log events for group: ", group>>

OkResult(evs) == [tag |-> "Ok", events |-> evs]
ErrResult(src, ctx) == [tag |-> "Err", source |-> src, context |-> ctx]
Pending == [tag |-> "Pending"]

(* Top of the loop with the limit already satisfied: break, return Ok.     *)
QueryLimitBreak ==
    /\ op = "query" /\ pc = "loop"
    /\ LimitExhausted(limit_hi, limit, Len(events))
    /\ pc' = "done"
    /\ result' = OkResult(events)
    /\ UNCHANGED <<op, log_group, fvars, qvars, hvars, tvars>>

(* Top of the loop otherwise: build the request and send it.               *)
QuerySend ==
    /\ op = "query" /\ pc = "loop"
    /\ ~LimitExhausted(limit_hi, limit, Len(events))
    /\ request' = [limit |-> BatchLimit(limit_hi, limit, Len(events)),
                   next_token |-> next_token,
                   accumulated |-> Len(events)]
    /\ requests' = Append(requests, request')
    /\ pc' = "sent"
    /\ UNCHANGED <<op, log_group, fvars, result, qvars, responses, tvars>>

QueryAfterResponse_IgnoresToken(hi, user_limit, len, token) ==
    IF LimitReached(hi, user_limit, len) THEN "done" ELSE "loop"

(* What the loop does with a response: the position it moves to.           *)
QueryAfterResponse(hi, user_limit, len, token) ==
    IF LimitReached(hi, user_limit, len) THEN "done"
    ELSE IF token = None THEN "done"
    ELSE "loop"

(* The response arrives: extend, truncate and break on the limit, else     *)
(* take the token and break when it is absent.                             *)
QueryRecv ==
    /\ op = "query" /\ pc = "sent"
    /\ LET response == PageFor(request.next_token)
           extended == IF response.has_events
                       THEN events \o response.events ELSE events
           reached == LimitReached(limit_hi, limit, Len(extended))
           kept == IF reached THEN Truncate(extended, limit) ELSE extended
       IN /\ responses' = Append(responses, response)
          /\ events' = kept
          /\ next_token' = IF reached THEN next_token ELSE response.next_token
          /\ pc' = QueryAfterResponse(limit_hi, limit, Len(extended),
                                      response.next_token)
          /\ result' = IF pc' = "done" THEN OkResult(kept) ELSE result
    /\ UNCHANGED <<op, log_group, fvars, limit, limit_hi, pages, request, requests,
                   tvars>>

QueryFailResult_Partial(group, evs) == OkResult(evs)

(* The page fetch fails: `?` returns the error with its context.           *)
QueryFailResult(group, evs) == ErrResult("fetch", ErrContext(group))

QueryFail ==
    /\ op = "query" /\ pc = "sent"
    /\ pc' = "failed"
    /\ result' = QueryFailResult(log_group, events)
    /\ UNCHANGED <<op, log_group, fvars, qvars, hvars, tvars>>

(* ---------------- the store during a tail session ---------------- *)
StoreEvents == 1..NumEvents

(* event.message of the store's events: the odd ones carry a message, the  *)
(* even ones have none.                                                    *)
HasMessage(e) == e % 2 = 1

(* Sequences of distinct elements of S, of length at most n, in any order. *)
RECURSIVE DistinctSeqs(_, _)
DistinctSeqs(S, n) ==
    IF n = 0 THEN { <<>> }
    ELSE { <<>> } \cup
         UNION { { <<e>> \o t : t \in DistinctSeqs(S \ {e}, n - 1) } : e \in S }

(* Events the store may put in the answer to req: those inside the         *)
(* requested window (an event without timestamp is not filtered by it),    *)
(* and, when the request continues a page sequence, not served before in   *)
(* that sequence.                                                          *)
Eligible(req) ==
    { e \in StoreEvents :
        /\ store_ts[e] = None \/ store_ts[e] >= req.start_time
        /\ req.next_token # None => e \notin served }

(* ---------------- tail_log_events ---------------- *)
TailStartTime(last_time, clock) ==
    IF last_time # None THEN last_time ELSE clock - LOOKBACK_MS

TailSend_StopsWhenCleared ==
    /\ op = "tail" /\ pc = "loop"
    /\ Len(requests) < MaxPolls
    /\ IF running
       THEN /\ request' = [start_time |-> TailStartTime(last_event_time, now),
                           next_token |-> next_forward_token,
                           slept |-> now - Now0,
                           delivered_before |-> Len(delivered),
                           running |-> running]
            /\ requests' = Append(requests, request')
            /\ pc' = "sent"
            /\ UNCHANGED result
       ELSE /\ pc' = "done"
            /\ result' = [tag |-> "Ok"]
            /\ UNCHANGED <<request, requests>>
    /\ UNCHANGED <<op, log_group, fvars, qvars, responses, tvars>>

(* Top of the loop: build the request and send it.                         *)
TailSend ==
    /\ op = "tail" /\ pc = "loop"
    /\ Len(requests) < MaxPolls
    /\ request' = [start_time |-> TailStartTime(last_event_time, now),
                   next_token |-> next_forward_token,
                   slept |-> now - Now0,
                   delivered_before |-> Len(delivered),
                   running |-> running]
    /\ requests' = Append(requests, request')
    /\ pc' = "sent"
    /\ UNCHANGED <<op, log_group, fvars, result, qvars, responses, tvars>>

(* The response arrives; its events are iterated one callback at a time.   *)
TailRecv ==
    /\ op = "tail" /\ pc = "sent"
    /\ \E has_events \in BOOLEAN, has_token \in BOOLEAN :
       \E evs \in DistinctSeqs(Eligible(request), MaxTailPage) :
          /\ has_events \/ evs = <<>>
          /\ LET token == IF has_token THEN Len(requests) ELSE None
                 response == [has_events |-> has_events, events |-> evs,
                              next_token |-> token]
             IN /\ responses' = Append(responses, response)
                /\ pending' = evs
                /\ response_token' = token
          /\ served' = (IF request.next_token = None THEN {} ELSE served)
                          \cup SeqToSet(evs)
    /\ pc' = "deliver"
    /\ UNCHANGED <<op, log_group, fvars, result, qvars, request, requests, cb_kind,
                   running, store_ts, now, next_forward_token,
                   last_event_time, delivered, printed>>

(* The page fetch fails: `?` returns the error as it is.                   *)
NoContext == <<>>

TailFailResult(group) == ErrResult("fetch", NoContext)

TailFail ==
    /\ op = "tail" /\ pc = "sent"
    /\ pc' = "failed"
    /\ result' = TailFailResult(log_group)
    /\ UNCHANGED <<op, log_group, fvars, qvars, hvars, tvars>>

(* The watermark after an event with the given timestamp.                  *)
Watermark(last_time, timestamp) ==
    IF timestamp # None THEN timestamp + 1 ELSE last_time

(* The closure commands::tail::run passes: a no-op once the flag is        *)
(* cleared, otherwise prints an event that has a message; always Ok.       *)
RunPrints(is_running, has_message) == is_running /\ has_message

(* Results the callback may return.                                        *)
CallbackResults(kind) == IF kind = "run" THEN {TRUE} ELSE BOOLEAN

AfterCallback_Swallows(ok) == "deliver"

(* Position after a callback invocation: `?` leaves on a failure.          *)
AfterCallback(ok) == IF ok THEN "deliver" ELSE "failed"

(* One iteration of `for event in events`.                                 *)
TailDeliver ==
    /\ op = "tail" /\ pc = "deliver" /\ pending # <<>>
    /\ LET event == Head(pending) IN
       /\ last_event_time' = Watermark(last_event_time, store_ts[event])
       /\ printed' = IF cb_kind = "run" /\ RunPrints(running, HasMessage(event))
                     THEN Append(printed, event) ELSE printed
       /\ \E ok \in CallbackResults(cb_kind) :
             /\ delivered' = Append(delivered,
                    [event |-> event, ok |-> ok, running |-> running,
                     out |-> Len(printed')])
             /\ pc' = AfterCallback(ok)
             /\ result' = IF pc' = "failed"
                          THEN ErrResult("callback", NoContext) ELSE result
    /\ pending' = Tail(pending)
    /\ UNCHANGED <<op, log_group, fvars, qvars, hvars, cb_kind, running, store_ts, served, now, next_forward_token, response_token>>

AfterCycle_AlwaysSleeps(token) == "sleep"

(* Position after the events of a response: sleep when it had no token.    *)
AfterCycle(token) == IF token = None THEN "sleep" ELSE "loop"

(* After the last event: keep the token, then sleep or loop.               *)
TailEndCycle ==
    /\ op = "tail" /\ pc = "deliver" /\ pending = <<>>
    /\ next_forward_token' = response_token
    /\ pc' = AfterCycle(response_token)
    /\ UNCHANGED <<op, log_group, fvars, result, qvars, hvars, cb_kind, running,
                   store_ts, served, now, last_event_time, pending,
                   response_token, delivered, printed>>

(* tokio::time::sleep(1 s) elapses.                                        *)
TailSleep ==
    /\ op = "tail" /\ pc = "sleep"
    /\ now' = now + SLEEP_MS
    /\ pc' = "loop"
    /\ UNCHANGED <<op, log_group, fvars, result, qvars, hvars, cb_kind, running,
                   store_ts, served, next_forward_token,
                   last_event_time, pending, response_token, delivered, printed>>

(* The handler installed by ctrlc::set_handler in commands::tail::run.     *)
CtrlC ==
    /\ op = "tail" /\ cb_kind = "run" /\ pc \notin {"done", "failed"}
    /\ running
    /\ running' = FALSE
    /\ UNCHANGED <<op, log_group, fvars, pc, result, qvars, hvars, cb_kind, store_ts, served, now, next_forward_token, last_event_time,
                   pending, response_token, delivered, printed>>

(* Nothing of the utils is in use during a retrieval.                      *)
NoUtils ==
    /\ input = <<>>
    /\ logs = <<>>
    /\ column_frequency = <<>>
    /\ column_max_width = <<>>
    /\ all_rows = <<>>
    /\ flattened = <<>>
    /\ columns = <<>>
    /\ rows = <<>>

InitCommon ==
    /\ NoUtils
    /\ log_group \in Groups
    /\ pc = "loop"
    /\ result = Pending
    /\ events = <<>>
    /\ next_token = None
    /\ requests = <<>>
    /\ responses = <<>>
    /\ running = TRUE
    /\ served = {}
    /\ now = Now0
    /\ next_forward_token = None
    /\ last_event_time = None
    /\ pending = <<>>
    /\ response_token = None
    /\ delivered = <<>>
    /\ printed = <<>>

InitQuery ==
    /\ InitCommon
    /\ op = "query"
    /\ limit \in {None} \cup 0..MaxLimit
    /\ limit_hi \in 0..MaxLimitHi
    /\ limit = None => limit_hi = 0
    /\ \E shape \in PageShapes : pages = BuildPages(shape)
    /\ request = NoRequest
    /\ cb_kind = "run"
    /\ store_ts = [e \in StoreEvents |-> None]

InitTail ==
    /\ InitCommon
    /\ op = "tail"
    /\ limit = None
    /\ limit_hi = 0
    /\ pages = <<>>
    /\ request = NoTailRequest
    /\ cb_kind \in {"run", "any"}
    /\ store_ts \in [StoreEvents -> Timestamps \cup {None}]

Init == InitQuery \/ InitTail

(* One get_log_events call, and the same under the scheduler's fairness:   *)
(* the future is polled until it returns.                                  *)
QueryNext == QueryLimitBreak \/ QuerySend \/ QueryRecv \/ QueryFail

QuerySpec == InitQuery /\ [][QueryNext]_vars

QueryFairSpec == QuerySpec /\ WF_vars(QueryNext)

(* One tail_log_events call under commands::tail::run.                     *)
TailNext ==
    \/ TailSend
    \/ TailRecv
    \/ TailFail
    \/ TailDeliver
    \/ TailEndCycle
    \/ TailSleep
    \/ CtrlC

TailSpec == InitTail /\ [][TailNext]_vars

(* Either command, as main dispatches them.                                *)
Next == QueryNext \/ TailNext

Spec == Init /\ [][Next]_vars

(* ---------------- strings ---------------- *)
(* A String is the sequence of its characters' code points; the printable  *)
(* ASCII characters in code order, from 32 (three of them by name).        *)
Ascii ==
    <<" ", "!", "QUOTE", "#", "$", "%", "&", "'", "(", ")", "*", "+", ",", "-",
      ".", "/", "0", "1", "2", "3", "4", "5", "6", "7", "8", "9", ":", ";",
      "<", "=", ">", "?", "@", "A", "B", "C", "D", "E", "F", "G", "H", "I",
      "J", "K", "L", "M", "N", "O", "P", "Q", "R", "S", "T", "U", "V", "W",
      "X", "Y", "Z", "[", "BACKSLASH", "]", "^", "_", "BACKTICK", "a", "b", "c", "d", "e",
      "f", "g", "h", "i", "j", "k", "l", "m", "n", "o", "p", "q", "r", "s",
      "t", "u", "v", "w", "x", "y", "z", "{", "|", "}", "~">>

Code(c) == 31 + CHOOSE i \in 1..Len(Ascii) : Ascii[i] = c

Str(chars) == [i \in 1..Len(chars) |-> Code(chars[i])]

Repeat(c, n) == [i \in 1..n |-> Code(c)]

(* Sequences over S of length at most n.                                   *)
SeqsUpTo(S, n) == UNION { [1..k -> S] : k \in 0..n }

LINE_FEED == 10
ARABIC_INDIC_THREE == 1635      \* U+0663, a decimal digit outside ASCII

IsAsciiDigit(c) == c >= Code("0") /\ c <= Code("9")

(* Ordering of strings, as str::cmp: by code, a proper prefix first.       *)
RECURSIVE StrLess(_, _)
StrLess(a, b) ==
    IF b = <<>> THEN FALSE
    ELSE IF a = <<>> THEN TRUE
    ELSE IF Head(a) # Head(b) THEN Head(a) < Head(b)
    ELSE StrLess(Tail(a), Tail(b))

(* ---------------- utils::time::parse_duration ---------------- *)
MaxDurationLen == 3     \* length of the generated duration strings

(* The class \d of the regex crate: any Unicode decimal digit.             *)
IsRegexDigit(c) == IsAsciiDigit(c) \/ c = ARABIC_INDIC_THREE

IsUnit(c) == c \in { Code("s"), Code("m"), Code("h"), Code("d") }

(* ^(\d+)([smhd])$                                                         *)
RegexMatches(s) ==
    /\ Len(s) >= 2
    /\ IsUnit(s[Len(s)])
    /\ \A i \in 1..(Len(s) - 1) : IsRegexDigit(s[i])

RECURSIVE StripZeros(_)
StripZeros(ds) ==
    IF Len(ds) > 1 /\ Head(ds) = Code("0") THEN StripZeros(Tail(ds)) ELSE ds

(* Decimal numerals without leading zeros, compared by value.              *)
DecLeq(a, b) ==
    \/ Len(a) < Len(b)
    \/ Len(a) = Len(b) /\ (a = b \/ StrLess(a, b))

I64_MAX == Str(<<"9","2","2","3","3","7","2","0","3","6","8","5","4","7","7",
                 "5","8","0","7">>)

(* captures[1].parse::<i64>(): the numeral read, or "Err" on a digit       *)
(* outside ASCII and on a number above i64::MAX.                           *)
ParseI64(ds) ==
    IF \E i \in 1..Len(ds) : ~IsAsciiDigit(ds[i]) THEN "Err"
    ELSE IF ~DecLeq(StripZeros(ds), I64_MAX) THEN "Err"
    ELSE StripZeros(ds)

UnitSeconds_MinuteIsSecond(u) ==
    IF u = Code("s") THEN 1
    ELSE IF u = Code("m") THEN 1
    ELSE IF u = Code("h") THEN 3600
    ELSE 86400

(* Seconds in Duration::seconds(1), ::minutes(1), ::hours(1), ::days(1).   *)
UnitSeconds(u) ==
    IF u = Code("s") THEN 1
    ELSE IF u = Code("m") THEN 60
    ELSE IF u = Code("h") THEN 3600
    ELSE 86400

(* The largest argument the Duration constructor of a unit takes without  *)
(* panicking: i64::MAX / 1000 seconds, in that unit.                       *)
DurationBound(u) ==
    IF u = Code("s")
    THEN Str(<<"9","2","2","3","3","7","2","0","3","6","8","5","4","7","7","5">>)
    ELSE IF u = Code("m")
    THEN Str(<<"1","5","3","7","2","2","8","6","7","2","8","0","9","1","2">>)
    ELSE IF u = Code("h")
    THEN Str(<<"2","5","6","2","0","4","7","7","8","8","0","1","5">>)
    ELSE Str(<<"1","0","6","7","5","1","9","9","1","1","6","7">>)

(* parse_duration(s). An Ok holds the Duration as the numeral parsed and   *)
(* the seconds of its unit: the duration is their product.                 *)
ParseDurationResult(s) ==
    IF ~RegexMatches(s) THEN [tag |-> "Err", kind |-> "format"]
    ELSE LET value == ParseI64(SubSeq(s, 1, Len(s) - 1))
             unit == s[Len(s)]
         IN IF value = "Err" THEN [tag |-> "Err", kind |-> "parse_int"]
            ELSE IF ~DecLeq(value, DurationBound(unit)) THEN [tag |-> "Panic"]
            ELSE [tag |-> "Ok", number |-> value,
                  unit_secs |-> UnitSeconds(unit)]

ParseDuration ==
    /\ op = "duration" /\ pc = "start"
    /\ result' = ParseDurationResult(input)
    /\ pc' = IF result'.tag = "Ok" THEN "done"
             ELSE IF result'.tag = "Err" THEN "failed" ELSE "panicked"
    /\ UNCHANGED <<op, log_group, input, qvars, hvars, tvars, logs,
                   column_frequency, column_max_width, all_rows, flattened,
                   columns, rows>>

NoRetrieval ==
    /\ log_group = "app"
    /\ limit = None /\ limit_hi = 0 /\ pages = <<>> /\ events = <<>>
    /\ next_token = None
    /\ request = NoRequest /\ requests = <<>> /\ responses = <<>>
    /\ cb_kind = "run" /\ running = TRUE
    /\ store_ts = [e \in StoreEvents |-> None]
    /\ served = {} /\ now = Now0
    /\ next_forward_token = None /\ last_event_time = None
    /\ pending = <<>> /\ response_token = None
    /\ delivered = <<>> /\ printed = <<>>

DurationAlphabet ==
    { Code("0"), Code("3"), Code("9"), Code("s"), Code("m"), Code("h"),
      Code("d"), Code("x"), Code(" "), ARABIC_INDIC_THREE }

WithUnits(ds) == { ds \o <<u>> : u \in { Code("s"), Code("m"), Code("h"), Code("d") } }

(* The numeral one above a numeral that does not end in 9.                 *)
Succ(ds) == [ds EXCEPT ![Len(ds)] = @ + 1]

DurationInputs ==
    SeqsUpTo(DurationAlphabet, MaxDurationLen)
    \cup { Str(<<"3","0","m">>), Str(<<"5","s">>), Str(<<"2","h">>),
           Str(<<"1","d">>), Str(<<"b","o","g","u","s">>),
           Str(<<"i","n","v","a","l","i","d">>),
           Str(<<"3","0","m">>) \o <<LINE_FEED>>,
           Repeat("0", 20) \o Str(<<"3","0","m">>) }
    \cup WithUnits(I64_MAX) \cup WithUnits(Succ(I64_MAX))
    \cup UNION { { DurationBound(u) \o <<u>>, Succ(DurationBound(u)) \o <<u>> } :
                   u \in { Code("s"), Code("m"), Code("h"), Code("d") } }

InitDuration ==
    /\ NoRetrieval
    /\ op = "duration"
    /\ pc = "start"
    /\ result = Pending
    /\ input \in DurationInputs
    /\ logs = <<>> /\ column_frequency = <<>> /\ column_max_width = <<>>
    /\ all_rows = <<>> /\ flattened = <<>> /\ columns = <<>> /\ rows = <<>>

DurationSpec == InitDuration /\ [][ParseDuration]_vars

(* ---------------- serde_json::Value ---------------- *)
(* An object holds its fields as <<key, value>> pairs in ascending key     *)
(* order, the order serde_json::Map iterates in.                           *)
JNull == [t |-> "null"]
JBool(b) == [t |-> "bool", b |-> b]
JNum(n) == [t |-> "num", n |-> n]
JStr(str) == [t |-> "str", s |-> str]
JArr(elems) == [t |-> "arr", e |-> elems]
JObj(fields) == [t |-> "obj", f |-> fields]

(* i.to_string() of a non-negative integer.                                *)
RECURSIVE Dec(_)
Dec(n) ==
    IF n < 10 THEN <<Code("0") + n>>
    ELSE Dec(n \div 10) \o <<Code("0") + (n % 10)>>

(* ---------------- utils::json_formatter::flatten_json_to_columns ------- *)
MaxFields == 2          \* fields of a generated object
MaxArrayLen == 2        \* elements of a generated array

EmptyMap == <<>>

(* BTreeMap::insert and BTreeMap::extend: the new entry replaces an old    *)
(* one with the same key.                                                  *)
MapInsert(map, key, value) == (key :> value) @@ map
MapExtend(map, other) == other @@ map

FormatJsonValue(value) ==
    IF value.t = "str" THEN value.s
    ELSE IF value.t = "num" THEN Dec(value.n)
    ELSE IF value.t = "bool"
         THEN (IF value.b THEN Str(<<"t","r","u","e">>)
               ELSE Str(<<"f","a","l","s","e">>))
    ELSE <<>>

FieldPath(prefix, key) ==
    IF prefix = <<>> THEN key ELSE prefix \o <<Code(".")>> \o key

ElementPath_NoIndex(prefix, i) == prefix \o <<Code("["), Code("]")>>

ElementPath(prefix, i) == prefix \o <<Code("[")>> \o Dec(i) \o <<Code("]")>>

RECURSIVE Flatten(_, _), FlattenFields(_, _, _), FlattenElements(_, _, _, _)
Flatten(value, prefix) ==
    IF value.t = "obj" THEN FlattenFields(value.f, prefix, EmptyMap)
    ELSE IF value.t = "arr" THEN FlattenElements(value.e, prefix, 0, EmptyMap)
    ELSE MapInsert(EmptyMap, prefix, FormatJsonValue(value))

(* for (key, val) in map                                                   *)
FlattenFields(fields, prefix, acc) ==
    IF fields = <<>> THEN acc
    ELSE LET key == fields[1][1]
             val == fields[1][2]
             new_prefix == FieldPath(prefix, key)
             next == IF val.t \in {"obj", "arr"}
                     THEN MapExtend(acc, Flatten(val, new_prefix))
                     ELSE IF val.t = "null"
                     THEN MapInsert(acc, new_prefix, <<>>)
                     ELSE MapInsert(acc, new_prefix, FormatJsonValue(val))
         IN FlattenFields(Tail(fields), prefix, next)

(* for (i, val) in arr.iter().enumerate()                                  *)
FlattenElements(elems, prefix, i, acc) ==
    IF elems = <<>> THEN acc
    ELSE FlattenElements(Tail(elems), prefix, i + 1,
             MapExtend(acc, Flatten(Head(elems), ElementPath(prefix, i))))

FlattenJson ==
    /\ op = "flatten" /\ pc = "start"
    /\ result' = [tag |-> "Ok", map |-> Flatten(input.value, input.prefix)]
    /\ pc' = "done"
    /\ UNCHANGED <<op, log_group, input, qvars, hvars, tvars, logs,
                   column_frequency, column_max_width, all_rows, flattened,
                   columns, rows>>

Scalars == { JStr(Str(<<"x">>)), JNum(7), JBool(TRUE), JNull }

FlattenKeys ==
    { Str(<<"a">>), Str(<<"b">>), Str(<<"a", ".", "b">>),
      Str(<<"a", "[", "0", "]">>) }

InnerValues ==
    Scalars \cup
    { JObj(<< <<Str(<<"b">>), JNum(7)>> >>),
      JObj(<< <<Str(<<"b">>), JNull>> >>),
      JArr(<< JStr(Str(<<"x">>)) >>), JArr(<<>>), JObj(<<>>) }

(* Key sequences in strictly ascending order.                              *)
SortedKeySeqs(keys, n) ==
    { ks \in SeqsUpTo(keys, n) :
        \A i \in 1..(Len(ks) - 1) : StrLess(ks[i], ks[i + 1]) }

ObjectsOver(keys, values, n) ==
    UNION { { JObj([i \in 1..Len(ks) |-> <<ks[i], vs[i]>>]) :
                vs \in [1..Len(ks) -> values] } : ks \in SortedKeySeqs(keys, n) }

FlattenValues ==
    Scalars
    \cup ObjectsOver(FlattenKeys, InnerValues, MaxFields)
    \cup { JArr(es) : es \in SeqsUpTo(InnerValues, MaxArrayLen) }

InitFlatten ==
    /\ NoRetrieval
    /\ op = "flatten"
    /\ pc = "start"
    /\ result = Pending
    /\ \E v \in FlattenValues, prefix \in { <<>>, Str(<<"p">>) } :
          input = [value |-> v, prefix |-> prefix]
    /\ logs = <<>> /\ column_frequency = <<>> /\ column_max_width = <<>>
    /\ all_rows = <<>> /\ flattened = <<>> /\ columns = <<>> /\ rows = <<>>

FlattenSpec == InitFlatten /\ [][FlattenJson]_vars

(* ---------------- serde_json text ---------------- *)
QUOTE == 34

Quoted(str) == <<QUOTE>> \o str \o <<QUOTE>>

(* serde_json::to_string: the compact text of a value (the strings of the  *)
(* model need no escape).                                                  *)
RECURSIVE Serialize(_), SerializeFields(_), SerializeElements(_)
Serialize(value) ==
    IF value.t = "obj" THEN Str(<<"{">>) \o SerializeFields(value.f) \o Str(<<"}">>)
    ELSE IF value.t = "arr"
    THEN Str(<<"[">>) \o SerializeElements(value.e) \o Str(<<"]">>)
    ELSE IF value.t = "str" THEN Quoted(value.s)
    ELSE IF value.t = "num" THEN Dec(value.n)
    ELSE IF value.t = "bool"
         THEN (IF value.b THEN Str(<<"t","r","u","e">>)
               ELSE Str(<<"f","a","l","s","e">>))
    ELSE Str(<<"n","u","l","l">>)

SerializeFields(fields) ==
    IF fields = <<>> THEN <<>>
    ELSE Quoted(fields[1][1]) \o Str(<<":">>) \o Serialize(fields[1][2])
         \o (IF Len(fields) > 1
             THEN Str(<<",">>) \o SerializeFields(Tail(fields)) ELSE <<>>)

SerializeElements(elems) ==
    IF elems = <<>> THEN <<>>
    ELSE Serialize(Head(elems))
         \o (IF Len(elems) > 1
             THEN Str(<<",">>) \o SerializeElements(Tail(elems)) ELSE <<>>)

LongText == Repeat("v", 101)
LongName == Repeat("n", 101)
LongStamp == Repeat("T", 101)

Field(chars, value) == <<Str(chars), value>>

(* The structured bodies of the generated log lines.                       *)
BodyValues ==
    { JObj(<< Field(<<"a">>, JStr(Str(<<"x">>))) >>),
      JObj(<< Field(<<"a">>, JStr(Str(<<"x">>))), Field(<<"b">>, JNum(7)) >>),
      JObj(<< Field(<<"a">>, JStr(Str(<<"y">>))), Field(<<"c">>, JBool(TRUE)) >>),
      JObj(<< Field(<<"t","i","m","e","s","t","a","m","p">>, JStr(Str(<<"z","z">>))) >>),
      JObj(<< Field(<<"l","o","g","_","g","r","o","u","p">>, JStr(Str(<<"q">>))) >>),
      JObj(<< Field(<<"a">>, JStr(LongText)) >>),
      JObj(<< <<LongName, JStr(Str(<<"x">>))>> >>),
      JObj(<< Field(<<"a">>, JObj(<< Field(<<"b">>, JNull) >>)) >>),
      JArr(<< JNum(7) >>),
      JStr(Str(<<"x">>)) }

(* serde_json::from_str: the value whose text the string is, "Err" for a   *)
(* string that is the text of none.                                        *)
ParseJson(str) ==
    IF \E v \in BodyValues : Serialize(v) = str
    THEN [tag |-> "Ok", value |-> CHOOSE v \in BodyValues : Serialize(v) = str]
    ELSE [tag |-> "Err"]

(* ---------------- utils::json_formatter::parse_log_line ---------------- *)
(* str::find of a character: its first position, 0 when absent.            *)
Find(str, c) ==
    IF \E i \in 1..Len(str) : str[i] = c
    THEN CHOOSE i \in 1..Len(str) : str[i] = c /\ \A j \in 1..(i - 1) : str[j] # c
    ELSE 0

IsWhitespace(c) == c = Code(" ") \/ c \in 9..13

RECURSIVE TrimStart(_)
TrimStart(str) ==
    IF str # <<>> /\ IsWhitespace(Head(str)) THEN TrimStart(Tail(str)) ELSE str

RECURSIVE TrimEnd(_)
TrimEnd(str) ==
    IF str # <<>> /\ IsWhitespace(str[Len(str)])
    THEN TrimEnd(SubSeq(str, 1, Len(str) - 1)) ELSE str

Trim(str) == TrimEnd(TrimStart(str))

StartsWith(str, c) == str # <<>> /\ str[1] = c

ParseLogLine(line) ==
    LET ts_end == Find(line, Code("]")) IN
    IF ts_end # 0 /\ StartsWith(line, Code("["))
    THEN LET timestamp == SubSeq(line, 2, ts_end - 1)
             rest == Trim(SubSeq(line, ts_end + 1, Len(line)))
             group_end == Find(rest, Code("]"))
         IN IF StartsWith(rest, Code("[")) /\ group_end # 0
            THEN [timestamp |-> timestamp,
                  log_group |-> SubSeq(rest, 2, group_end - 1),
                  json_str |-> Trim(SubSeq(rest, group_end + 1, Len(rest)))]
            ELSE [timestamp |-> timestamp, log_group |-> <<>>, json_str |-> rest]
    ELSE [timestamp |-> <<>>, log_group |-> <<>>, json_str |-> line]

TruncateString(str, max_len) ==
    IF Len(str) <= max_len THEN str
    ELSE SubSeq(str, 1, max_len - 3) \o Str(<<".", ".", ".">>)

(* ---------------- utils::json_formatter::analyze_json_logs ------------- *)
MaxLines == 2           \* lines handed to analyze_json_logs

TIMESTAMP == Str(<<"t","i","m","e","s","t","a","m","p">>)
LOG_GROUP == Str(<<"l","o","g","_","g","r","o","u","p">>)
WIDTH_CAP == 100        \* json_formatter.rs:95
WIDTH_FLOOR == 9        \* json_formatter.rs:113

Max(a, b) == IF a >= b THEN a ELSE b

MapGet(map, key, default) == IF key \in DOMAIN map THEN map[key] ELSE default

(* entry(key): an existing width is raised to the new one, a missing one   *)
(* is inserted.                                                            *)
WidenTo(map, key, width) ==
    MapInsert(map, key, IF key \in DOMAIN map THEN Max(map[key], width) ELSE width)

(* The loop over the flattened entries: count every key once, widen its    *)
(* column to the capped length of the value.                               *)
CountKeys(frequency, flat) ==
    [k \in DOMAIN frequency \cup DOMAIN flat |->
        IF k \in DOMAIN flat THEN MapGet(frequency, k, 0) + 1 ELSE frequency[k]]

WidenKeys(widths, flat) ==
    [k \in DOMAIN widths \cup DOMAIN flat |->
        IF k \in DOMAIN flat
        THEN (IF k \in DOMAIN widths
              THEN Max(widths[k], Min(Len(flat[k]), WIDTH_CAP))
              ELSE Min(Len(flat[k]), WIDTH_CAP))
        ELSE widths[k]]

(* One iteration of `for log_line in logs.iter()`.                         *)
AnalyzeLine ==
    /\ op = "format" /\ pc = "lines"
    /\ Len(all_rows) < Len(logs)
    /\ LET parsed == ParseLogLine(logs[Len(all_rows) + 1])
           row == MapInsert(MapInsert(EmptyMap, TIMESTAMP, parsed.timestamp),
                            LOG_GROUP, parsed.log_group)
           widths == WidenTo(WidenTo(column_max_width, TIMESTAMP,
                                     Len(parsed.timestamp)),
                             LOG_GROUP, Len(parsed.log_group))
           json_value == ParseJson(parsed.json_str)
       IN IF json_value.tag = "Ok"
          THEN LET flat == Flatten(json_value.value, <<>>)
               IN /\ column_frequency' = CountKeys(column_frequency, flat)
                  /\ column_max_width' = WidenKeys(widths, flat)
                  /\ all_rows' = Append(all_rows, MapExtend(row, flat))
                  /\ flattened' = Append(flattened, [called |-> TRUE, map |-> flat])
          ELSE /\ column_frequency' = column_frequency
               /\ column_max_width' = widths
               /\ all_rows' = Append(all_rows, row)
               /\ flattened' = Append(flattened,
                                      [called |-> FALSE, map |-> EmptyMap])
    /\ UNCHANGED <<op, log_group, pc, result, input, qvars, hvars, tvars, logs,
                   columns, rows>>

IsFixedColumn_Never(name) == FALSE

(* The names the filter of the other columns leaves out.                   *)
IsFixedColumn(name) == name = TIMESTAMP \/ name = LOG_GROUP

ColumnBefore_LowFrequencyFirst(a, b) ==
    \/ a.frequency < b.frequency
    \/ a.frequency = b.frequency /\ StrLess(a.name, b.name)

(* The comparator of sort_by says Less: a sorts before b.                  *)
ColumnBefore(a, b) ==
    \/ b.frequency < a.frequency
    \/ b.frequency = a.frequency /\ StrLess(a.name, b.name)

(* Stable sort: each element goes before the first one it sorts before.    *)
RECURSIVE InsertColumn(_, _)
InsertColumn(sorted, c) ==
    IF sorted = <<>> THEN <<c>>
    ELSE IF ColumnBefore(c, Head(sorted)) THEN <<c>> \o sorted
    ELSE <<Head(sorted)>> \o InsertColumn(Tail(sorted), c)

RECURSIVE SortColumns(_)
SortColumns(cs) ==
    IF cs = <<>> THEN <<>>
    ELSE InsertColumn(SortColumns(SubSeq(cs, 1, Len(cs) - 1)), cs[Len(cs)])

(* The orders a HashMap may iterate its keys in.                           *)
IterationOrders(keys) ==
    { o \in DistinctSeqs(keys, Cardinality(keys)) : Len(o) = Cardinality(keys) }

FixedColumn(name, count, widths) ==
    [name |-> name, frequency |-> count,
     max_width |-> Max(MapGet(widths, name, WIDTH_FLOOR), WIDTH_FLOOR)]

OtherColumn(name, frequency, widths) ==
    [name |-> name, frequency |-> frequency[name],
     max_width |-> Max(MapGet(widths, name, 0), Len(name))]

(* After the loop: the two fixed columns, then the others sorted.          *)
BuildColumns ==
    /\ op = "format" /\ pc = "lines"
    /\ Len(all_rows) = Len(logs)
    /\ column_frequency' =
          MapInsert(MapInsert(column_frequency, TIMESTAMP, Len(logs)),
                    LOG_GROUP, Len(logs))
    /\ \E order \in IterationOrders(
              { k \in DOMAIN column_frequency' : ~IsFixedColumn(k) }) :
          columns' =
              << FixedColumn(TIMESTAMP, Len(logs), column_max_width),
                 FixedColumn(LOG_GROUP, Len(logs), column_max_width) >>
              \o SortColumns([i \in 1..Len(order) |->
                     OtherColumn(order[i], column_frequency', column_max_width)])
    /\ pc' = "rows"
    /\ UNCHANGED <<op, log_group, result, input, qvars, hvars, tvars, logs,
                   column_max_width, all_rows, flattened, rows>>

(* The rows: one cell per column, truncated for display.                   *)
BuildRows ==
    /\ op = "format" /\ pc = "rows"
    /\ rows' = [i \in 1..Len(all_rows) |->
                  [j \in 1..Len(columns) |->
                      TruncateString(MapGet(all_rows[i], columns[j].name, <<>>),
                                     WIDTH_CAP)]]
    /\ result' = [tag |-> "Ok"]
    /\ pc' = "done"
    /\ UNCHANGED <<op, log_group, input, qvars, hvars, tvars, logs,
                   column_frequency, column_max_width, all_rows, flattened,
                   columns>>

Bracketed(str) == Str(<<"[">>) \o str \o Str(<<"]">>)

FullLine(timestamp, group, body) ==
    Bracketed(timestamp) \o Str(<<" ">>) \o Bracketed(group) \o Str(<<" ">>) \o body

PlainBody == Str(<<"p","l","a","i","n">>)

(* Lines as commands::query::run renders them, with structured and plain  *)
(* bodies, and lines of other shapes.                                      *)
LogLines ==
    { FullLine(Str(<<"t","1">>), Str(<<"g">>), Serialize(v)) : v \in BodyValues }
    \cup { FullLine(Str(<<"t","1">>), Str(<<"g">>), PlainBody),
           FullLine(Str(<<"t","1">>), Str(<<"g">>), <<>>),
           FullLine(LongStamp, Str(<<"g">>),
                    Serialize(JObj(<< Field(<<"a">>, JStr(Str(<<"x">>))) >>))),
           Bracketed(Str(<<"t","1">>)) \o Str(<<" ">>) \o PlainBody,
           PlainBody,
           Serialize(JObj(<< Field(<<"a">>, JStr(Str(<<"x">>))) >>)) }

InitFormat ==
    /\ NoRetrieval
    /\ op = "format"
    /\ pc = "lines"
    /\ result = Pending
    /\ input = <<>>
    /\ logs \in SeqsUpTo(LogLines, MaxLines)
    /\ column_frequency = EmptyMap /\ column_max_width = EmptyMap
    /\ all_rows = <<>> /\ flattened = <<>> /\ columns = <<>> /\ rows = <<>>

FormatNext == AnalyzeLine \/ BuildColumns \/ BuildRows

FormatSpec == InitFormat /\ [][FormatNext]_vars

(* ======================= properties ======================= *)
Terminated == pc \in {"done", "failed"}

ResponseEvents == Concat([i \in 1..Len(responses) |-> responses[i].events])

(* C1: when get_log_events returns, it returns exactly min(L, N) events    *)
(* (N without a limit), and they are the first min(L, N) events of the     *)
(* concatenation of the store's pages in response order.                   *)
C1_ReturnsPrefix ==
    (op = "query" /\ pc = "done") =>
        LET N == Len(AllEvents)
            n == IF limit = None \/ limit_hi > 0 THEN N ELSE Min(limit, N)
        IN /\ result.tag = "Ok"
           /\ Len(result.events) = n
           /\ result.events = SubSeq(AllEvents, 1, n)

(* A query that returned after several pages, the last of which ran over   *)
(* the limit and had its tail cut.                                         *)
C1_Witness ==
    /\ op = "query" /\ pc = "done"
    /\ limit # None /\ limit > 0 /\ limit_hi = 0
    /\ Len(responses) >= 2
    /\ Len(ResponseEvents) > limit
    /\ Len(result.events) = limit

(* C2: during a tail session no event of the store is handed to the        *)
(* callback more than once.                                                *)
C2_NoDuplicateDelivery ==
    op = "tail" =>
        \A i, j \in 1..Len(delivered) :
            i < j => delivered[i].event # delivered[j].event

(* C3: once an event with timestamp t1 has been delivered, every later     *)
(* request starts its window at t1 + 1 or later.                           *)
C3_WatermarkNeverBelowDelivered ==
    op = "tail" =>
        \A i \in 1..Len(requests) :
            \A j \in 1..requests[i].delivered_before :
                store_ts[delivered[j].event] # None =>
                    requests[i].start_time >= store_ts[delivered[j].event] + 1

NoRequestAfterLastPage ==
    op = "query" =>
        \A i \in 1..Len(responses) :
            responses[i].next_token = None => Len(requests) <= i

(* C4: get_log_events terminates, and after the first response without a   *)
(* continuation token it issues no page request.                           *)
C4_TerminatesAtLastPage == []NoRequestAfterLastPage /\ <>Terminated

(* A query without limit that walked several pages and stopped at the one  *)
(* without token.                                                          *)
C4_Witness ==
    /\ op = "query" /\ pc = "done" /\ limit = None
    /\ Len(responses) >= 2
    /\ responses[Len(responses)].next_token = None
    /\ Len(requests) = Len(responses)

(* C5: with a limit L, every page request is issued with fewer than L      *)
(* events accumulated; L = 0 issues none.                                  *)
C5_NoRequestPastLimit ==
    (op = "query" /\ limit # None) =>
        /\ \A i \in 1..Len(requests) :
              limit_hi > 0 \/ requests[i].accumulated < limit
        /\ (limit = 0 /\ limit_hi = 0) => requests = <<>>

(* A limited query that needed several pages to fill its limit, and one    *)
(* with limit 0 that returned at once.                                     *)
C5_Witness ==
    /\ op = "query" /\ pc = "done" /\ limit # None /\ limit_hi = 0
    /\ \/ Len(requests) >= 2 /\ Len(events) = limit
       \/ limit = 0 /\ requests = <<>> /\ Len(AllEvents) > 0

(* C6: a failed page fetch makes the query return a failure whose context  *)
(* names the log group, and none of the accumulated events.                *)
C6_FailureDiscardsPartial ==
    (op = "query" /\ pc = "failed") =>
        /\ result.tag = "Err"
        /\ log_group \in SeqToSet(result.context)
        /\ "events" \notin DOMAIN result

(* A fetch that failed after earlier pages had brought events.             *)
C6_Witness ==
    /\ op = "query" /\ pc = "failed"
    /\ Len(responses) >= 1 /\ Len(events) > 0
    /\ Len(requests) = Len(responses) + 1

(* C7: a page-fetch failure in a tail session is surfaced with the group   *)
(* name in it.                                                             *)
C7_TailFailureNamesGroup ==
    (op = "tail" /\ pc = "failed" /\ result.source = "fetch") =>
        /\ result.tag = "Err"
        /\ log_group \in SeqToSet(result.context)

(* C8: the callback is invoked for the events of the responses in arrival  *)
(* order, and a failed invocation is the last thing tailing does: no later *)
(* event, no further request, no sleep.                                    *)
C8_CallbackOrderAndAbort ==
    op = "tail" =>
        /\ [i \in 1..Len(delivered) |-> delivered[i].event]
              = SubSeq(ResponseEvents, 1, Len(delivered))
        /\ pc # "failed" =>
              Len(delivered) + Len(pending) = Len(ResponseEvents)
        /\ \A i \in 1..Len(delivered) :
              ~delivered[i].ok =>
                  /\ i = Len(delivered)
                  /\ pc = "failed"
                  /\ result = ErrResult("callback", NoContext)
                  /\ Len(requests) = Len(responses)
                  /\ now - Now0 = requests[Len(requests)].slept

(* A callback failure in the middle of a page, after earlier deliveries.   *)
C8_Witness ==
    /\ op = "tail" /\ pc = "failed"
    /\ Len(delivered) >= 2
    /\ ~delivered[Len(delivered)].ok
    /\ pending # <<>>

(* C9: after a response with a token the next request follows without a    *)
(* sleep and carries that token; after a response without one the tailer   *)
(* sleeps 1 second, and the next request carries no token.                 *)
C9_TokenOrSleep ==
    op = "tail" =>
        /\ \A i \in 1..(Len(requests) - 1) :
              IF responses[i].next_token # None
              THEN /\ requests[i + 1].next_token = responses[i].next_token
                   /\ requests[i + 1].slept = requests[i].slept
              ELSE /\ requests[i + 1].next_token = None
                   /\ requests[i + 1].slept = requests[i].slept + SLEEP_MS
        /\ pc = "sleep" => responses[Len(responses)].next_token = None

(* A session that drained a page with a token and then slept after one     *)
(* without.                                                                *)
C9_Witness ==
    /\ op = "tail" /\ Len(requests) >= 3
    /\ responses[1].next_token # None
    /\ responses[2].next_token = None

(* C10: once the Ctrl-C flag is cleared the closure of tail::run returns   *)
(* Ok for every event and prints nothing, and the tailer goes on: it never *)
(* returns Ok, and a cleared flag alone never ends it.                     *)
C10_CooperativeCancel ==
    op = "tail" =>
        /\ pc # "done" /\ result.tag # "Ok"
        /\ pc = "failed" =>
              result.tag = "Err" /\ result.source \in {"fetch", "callback"}
        /\ \A i \in 1..Len(delivered) :
              (cb_kind = "run" /\ ~delivered[i].running) =>
                  /\ delivered[i].ok
                  /\ delivered[i].out =
                        (IF i = 1 THEN 0 ELSE delivered[i - 1].out)
        /\ (~running /\ pc = "failed") => result.source = "fetch"
        /\ (~running /\ pc = "loop" /\ Len(requests) < MaxPolls) =>
              ENABLED TailSend

(* After Ctrl-C: an event with a message went to the closure unprinted,    *)
(* and a later page request was still issued.                              *)
C10_Witness ==
    /\ op = "tail" /\ cb_kind = "run" /\ ~running
    /\ \E j \in 1..Len(delivered) :
          /\ ~delivered[j].running /\ HasMessage(delivered[j].event)
          /\ \E i \in 1..Len(requests) :
                ~requests[i].running /\ requests[i].delivered_before >= j

(* The page size the limit calls for when `accumulated` events are held:   *)
(* min(remaining-needed, 10000), or 10000 without a limit.                 *)
NeededPageSize(hi, user_limit, accumulated) ==
    IF user_limit = None THEN MAX_EVENTS_PER_REQUEST
    ELSE LET r == SaturatingSub(hi, user_limit, accumulated)
         IN IF r.hi > 0 THEN MAX_EVENTS_PER_REQUEST
            ELSE Min(r.lo, MAX_EVENTS_PER_REQUEST)

(* C17: every page request of get_log_events asks for                      *)
(* min(remaining-needed, 10000) events, a size between 1 and 10000, for    *)
(* every limit a usize can hold; without a limit it asks for 10000.        *)
C17_PageSizeIsMinOfRemaining ==
    op = "query" =>
        \A i \in 1..Len(requests) :
            /\ requests[i].limit =
                  NeededPageSize(limit_hi, limit, requests[i].accumulated)
            /\ requests[i].limit >= 1
            /\ requests[i].limit <= MAX_EVENTS_PER_REQUEST

(* One or more ASCII decimal digits followed by one of s, m, h, d.         *)
IsDigitsUnit(s) ==
    /\ Len(s) >= 2
    /\ s[Len(s)] \in { Code("s"), Code("m"), Code("h"), Code("d") }
    /\ \A i \in 1..(Len(s) - 1) : s[i] \in Code("0")..Code("9")

DigitsOf(s) == SubSeq(s, 1, Len(s) - 1)

RECURSIVE DecValue(_)
DecValue(ds) ==
    IF ds = <<>> THEN 0
    ELSE 10 * DecValue(SubSeq(ds, 1, Len(ds) - 1)) + (ds[Len(ds)] - Code("0"))

(* The length of a unit, in seconds.                                       *)
UnitLength(u) ==
    CASE u = Code("s") -> 1
      [] u = Code("m") -> 60
      [] u = Code("h") -> 60 * 60
      [] u = Code("d") -> 24 * 60 * 60

(* What an Ok of parse_duration must hold for the input: the number of     *)
(* the input times the length of its unit.                                 *)
YieldsNumberTimesUnit ==
    /\ result.number = StripZeros(DigitsOf(input))
    /\ Len(result.number) <= 4 =>
          DecValue(result.number) * result.unit_secs
              = DecValue(StripZeros(DigitsOf(input))) * UnitLength(input[Len(input)])
    /\ input = Str(<<"3", "0", "m">>) =>
          DecValue(result.number) * result.unit_secs * 1000 = 1800000

(* C16: parse_duration succeeds exactly on the strings of one or more      *)
(* decimal digits followed by one unit letter among s, m, h, d, yielding   *)
(* the number times the unit's length, and fails on every other string.    *)
C16_SucceedsExactlyOnDigitsUnit ==
    (op = "duration" /\ pc # "start") =>
        /\ result.tag = "Ok" <=> IsDigitsUnit(input)
        /\ result.tag = "Ok" => YieldsNumberTimesUnit
        /\ ~IsDigitsUnit(input) => result.tag = "Err"

(* C16, amended: parse_duration succeeds exactly on the digits-and-unit    *)
(* strings whose number times the unit is at most i64::MAX / 1000 seconds, *)
(* yielding the number times the unit's length; it returns an error on     *)
(* every string of another shape and on every number above i64::MAX.       *)
C16_SucceedsOnDigitsUnitInRange ==
    (op = "duration" /\ pc # "start") =>
        /\ result.tag = "Ok" <=>
              /\ IsDigitsUnit(input)
              /\ DecLeq(StripZeros(DigitsOf(input)),
                        DurationBound(input[Len(input)]))
        /\ result.tag = "Ok" => YieldsNumberTimesUnit
        /\ ~IsDigitsUnit(input) => result.tag = "Err"
        /\ (IsDigitsUnit(input) /\ ~DecLeq(StripZeros(DigitsOf(input)), I64_MAX))
              => result.tag = "Err"

(* "30m" parsed, and so was the largest number of days a Duration holds.   *)
C16_Witness ==
    /\ op = "duration" /\ pc = "done"
    /\ \/ input = Str(<<"3", "0", "m">>) /\ result.unit_secs = 60
       \/ input = DurationBound(Code("d")) \o <<Code("d")>>

(* The text of a leaf: a string unquoted, a number in decimal, true or     *)
(* false, and the empty string for null.                                   *)
LeafText(value) ==
    CASE value.t = "str" -> value.s
      [] value.t = "num" -> Dec(value.n)
      [] value.t = "bool" -> IF value.b THEN Str(<<"t", "r", "u", "e">>)
                             ELSE Str(<<"f", "a", "l", "s", "e">>)
      [] value.t = "null" -> <<>>

(* The leaves of a value with their paths, one item per leaf: field k      *)
(* under p is at p.k (k when p is empty), element i under p at p[i].       *)
RECURSIVE Leaves(_, _)
Leaves(value, p) ==
    IF value.t = "obj"
    THEN Concat([i \in 1..Len(value.f) |->
            Leaves(value.f[i][2],
                   IF p = <<>> THEN value.f[i][1]
                   ELSE p \o Str(<<".">>) \o value.f[i][1])])
    ELSE IF value.t = "arr"
    THEN Concat([i \in 1..Len(value.e) |->
            Leaves(value.e[i], p \o Str(<<"[">>) \o Dec(i - 1) \o Str(<<"]">>))])
    ELSE << [path |-> p, text |-> LeafText(value)] >>

InputLeaves == Leaves(input.value, input.prefix)

DistinctPaths(ls) ==
    \A i, j \in 1..Len(ls) : i # j => ls[i].path # ls[j].path

(* C15: every scalar or null leaf of the input appears exactly once in the *)
(* output of flatten_json_to_columns, under its path, so the output has    *)
(* one entry per leaf.                                                     *)
C15_OneEntryPerLeaf ==
    (op = "flatten" /\ pc = "done") =>
        /\ \A i \in 1..Len(InputLeaves) :
              /\ InputLeaves[i].path \in DOMAIN result.map
              /\ result.map[InputLeaves[i].path] = InputLeaves[i].text
        /\ Cardinality(DOMAIN result.map) = Len(InputLeaves)

(* C15, amended: the output's keys are exactly the paths of the leaves and *)
(* each entry holds the text of a leaf at that path; when the paths of the *)
(* leaves are pairwise distinct, every leaf appears under its path with    *)
(* its text and the output has one entry per leaf.                         *)
C15_OneEntryPerLeafPath ==
    (op = "flatten" /\ pc = "done") =>
        /\ DOMAIN result.map = { InputLeaves[i].path : i \in 1..Len(InputLeaves) }
        /\ \A path \in DOMAIN result.map :
              \E i \in 1..Len(InputLeaves) :
                  /\ InputLeaves[i].path = path
                  /\ InputLeaves[i].text = result.map[path]
        /\ DistinctPaths(InputLeaves) =>
              /\ \A i \in 1..Len(InputLeaves) :
                    result.map[InputLeaves[i].path] = InputLeaves[i].text
              /\ Cardinality(DOMAIN result.map) = Len(InputLeaves)

(* A nested value flattened: a null inside an object inside an object,     *)
(* next to an array element.                                               *)
C15_Witness ==
    /\ op = "flatten" /\ pc = "done"
    /\ input.prefix = <<>>
    /\ Len(InputLeaves) = 2 /\ DistinctPaths(InputLeaves)
    /\ Str(<<"a", ".", "b">>) \in DOMAIN result.map
    /\ result.map[Str(<<"a", ".", "b">>)] = <<>>
    /\ Str(<<"b", "[", "0", "]">>) \in DOMAIN result.map


(* ---------------- analyze_json_logs ---------------- *)
Formatted == op = "format" /\ pc = "done"

LineBody(i) == ParseLogLine(logs[i]).json_str

BodyUnparsed(i) == ParseJson(LineBody(i)).tag = "Err"

(* C11: for a line whose body is not structured data the formatting run    *)
(* still completes, the flattener is not invoked for that line, and the    *)
(* whole body is kept as one opaque value: the body text is a cell of      *)
(* that line's row.                                                        *)
C11_UnparsedBodyKeptAsCell ==
    Formatted =>
        /\ result.tag = "Ok"
        /\ \A i \in 1..Len(logs) :
              BodyUnparsed(i) =>
                 /\ ~flattened[i].called
                 /\ \E j \in 1..Len(rows[i]) :
                       rows[i][j] = TruncateString(LineBody(i), WIDTH_CAP)


(* C12: the column list starts with timestamp then log_group, each with    *)
(* frequency equal to the number of input lines, and neither name occurs   *)
(* again among the later columns, also when a body has fields so named.    *)
C12_FixedColumnsFirstAndOnce ==
    Formatted =>
        /\ Len(columns) >= 2
        /\ columns[1].name = TIMESTAMP /\ columns[1].frequency = Len(logs)
        /\ columns[2].name = LOG_GROUP /\ columns[2].frequency = Len(logs)
        /\ \A j \in 3..Len(columns) :
              columns[j].name # TIMESTAMP /\ columns[j].name # LOG_GROUP

(* Two lines, one body with a field named timestamp and one with a field   *)
(* named log_group, formatted.                                             *)
C12_Witness ==
    /\ Formatted
    /\ Len(logs) = 2
    /\ \E i \in 1..Len(logs) : flattened[i].called /\ TIMESTAMP \in DOMAIN flattened[i].map
    /\ \E i \in 1..Len(logs) : flattened[i].called /\ LOG_GROUP \in DOMAIN flattened[i].map


(* The lines whose body parsed and whose flattened body has the path.      *)
RowsWithPath(name) ==
    { i \in 1..Len(logs) : flattened[i].called /\ name \in DOMAIN flattened[i].map }

(* C13: the columns after the two fixed ones are totally ordered, higher   *)
(* frequency first and equal frequencies by ascending name, where the      *)
(* frequency of a column is the number of rows whose flattened body has    *)
(* that path.                                                              *)
C13_OtherColumnsByFrequencyThenName ==
    Formatted =>
        /\ \A j \in 3..Len(columns) :
              columns[j].frequency = Cardinality(RowsWithPath(columns[j].name))
        /\ \A j, k \in 3..Len(columns) :
              j < k =>
                 \/ columns[j].frequency > columns[k].frequency
                 \/ /\ columns[j].frequency = columns[k].frequency
                    /\ StrLess(columns[j].name, columns[k].name)

(* A column seen in two rows ahead of two columns seen in one row each.    *)
C13_Witness ==
    /\ Formatted
    /\ Len(columns) >= 5
    /\ columns[3].frequency = 2
    /\ columns[4].frequency = 1
    /\ columns[5].frequency = 1


(* C14: every column of the output, timestamp and log_group included, has  *)
(* max_width at most 100, whatever the lengths of the values, of the       *)
(* bracketed segments and of the column names.                             *)
C14_EveryWidthAtMostCap ==
    Formatted => \A j \in 1..Len(columns) : columns[j].max_width <= WIDTH_CAP

(* C18: in every row the timestamp cell and the log_group cell hold the    *)
(* substrings taken from the first two bracketed segments of the line      *)
(* (truncated for display), whatever the body of the line holds.           *)
C18_FixedCellsFromBrackets ==
    Formatted =>
        \A i \in 1..Len(logs) :
            /\ rows[i][1] = TruncateString(ParseLogLine(logs[i]).timestamp, WIDTH_CAP)
            /\ rows[i][2] = TruncateString(ParseLogLine(logs[i]).log_group, WIDTH_CAP)

====
